---- MODULE Spec2Model ----
(***************************************************************************)
(* Device backend layer of Thermal-Engine (src/src/core/device_backends.py) *)
(* as a state machine: one backend object (HIDBackend or USBBulkBackend),   *)
(* driven by a single caller through connect / send_frame / disconnect /    *)
(* is_connected.  The USB/HID platform layer is the environment: every      *)
(* call into it (find, open, write, close, dispose, descriptor read) has    *)
(* its outcome chosen nondeterministically.                                 *)
(* The module-level functions (find_device_definition, create_backend,      *)
(* enumerate_available_devices) are operators, applied under SpecRegistry.  *)
(***************************************************************************)
EXTENDS Integers, Sequences, FiniteSets, TLC

VARIABLES
    device_def,     \* DisplayBackend.device_def: the DeviceDefinition bound at construction
    lib,            \* TRUE iff the transport library (hid / usb) can be imported in this process
    module,         \* TRUE iff self.hid / self.usb has been bound by a connect()
    device,         \* self.device: None or the id of the handle object held
    connected,      \* self.connected
    endpoint_out,   \* USBBulkBackend.endpoint_out: None or an endpoint address
    endpoint_in,    \* USBBulkBackend.endpoint_in: None or an endpoint address
    nextHandle,     \* number of handle objects created so far (ids 1..nextHandle)
    writeFailed,    \* history: a send_frame write raised since the last successful connect()
    last,           \* history: the most recent call (operation, pre-state, result, writes issued)
    unreleased,     \* history: handles obtained by a connect() and not yet passed to
                    \*          close() / dispose_resources()
    handshook,      \* history: the handle on which the most recent connect() had its
                    \*          initialization write accepted in full, None after a disconnect()
    race            \* two threads inside disconnect() and send_frame(): their positions and locals

vars == <<device_def, lib, module, device, connected, endpoint_out, endpoint_in,
          nextHandle, writeFailed, last, unreleased, handshook, race>>

----------------------------------------------------------------------------
(* Bounds *)

MaxHandles == 2        \* handle objects a run may create
MaxFrameLen == 1       \* longest frame payload of the main specification
MaxInterfaces == 2     \* interfaces of an enumerated configuration
MaxEndpoints == 2      \* endpoints per interface

----------------------------------------------------------------------------
(* Python values *)

None == -1

\* Python truthiness of an Optional[int] / Optional[object]: None and 0 are falsy
Falsy(x) == x = None \/ x = 0

\* usb.util constants
ENDPOINT_IN == 128
ENDPOINT_OUT == 0
ENDPOINT_TYPE_ISO == 1
ENDPOINT_TYPE_BULK == 2
ENDPOINT_TYPE_INTR == 3

\* usb.util.endpoint_direction(address): bit 7 of the address
endpoint_direction(address) == ((address \div 128) % 2) * 128

\* usb.util.endpoint_type(bmAttributes): the two low bits
endpoint_type(bmAttributes) == bmAttributes % 4

----------------------------------------------------------------------------
(* Device definitions *)

DeviceDefinition(name, vid, pid, backend, w, h, exp, init) ==
    [name |-> name, vendor_id |-> vid, product_id |-> pid, backend_type |-> backend,
     width |-> w, height |-> h, experimental |-> exp, init_sequence |-> init]

Trofeo == DeviceDefinition("Thermalright Trofeo AIO", 1046, 21250, "hid",
                           1280, 480, FALSE, <<218, 219, 220, 221, 0>>)

FW360 == DeviceDefinition("Thermalright FW 360 Ultra", 34733, 28891, "usb_bulk",
                          480, 480, FALSE, <<>>)

SUPPORTED_DEVICES == <<Trofeo, FW360>>

\* A bulk panel built with the constructor's default dimensions (width differs from height)
WidePanel == DeviceDefinition("Wide bulk panel", 34733, 28892, "usb_bulk",
                              1280, 480, TRUE, <<>>)

DeviceDefs == {SUPPORTED_DEVICES[i] : i \in 1..Len(SUPPORTED_DEVICES)} \cup {WidePanel}

IsHID == device_def.backend_type = "hid"
IsBulk == device_def.backend_type = "usb_bulk"

----------------------------------------------------------------------------
(* Byte strings *)

Zeros(n) == [i \in 1..n |-> 0]

\* b[lo:hi] = v on a bytearray, for Len(v) = hi - lo (0-based, hi exclusive)
SetSlice(b, lo, v) ==
    [i \in 1..Len(b) |-> IF i > lo /\ i <= lo + Len(v) THEN v[i - lo] ELSE b[i]]

\* A 32-bit unsigned integer as its two 16-bit halves
Words(n) == [hi |-> n \div 65536, lo |-> n % 65536]

\* w.to_bytes(4, 'little') for the integer hi * 65536 + lo
to_bytes_4_little(w) ==
    <<w.lo % 256, w.lo \div 256, w.hi % 256, w.hi \div 256>>

\* The value a sequence of four bytes denotes in little-endian order, as 16-bit halves
FromLittle(b) == [hi |-> b[3] + 256 * b[4], lo |-> b[1] + 256 * b[2]]

MAGIC == <<18, 52, 86, 120>>

FrameBytes == {0, 255}
Frames == UNION {[1..n -> FrameBytes] : n \in 0..MaxFrameLen}

----------------------------------------------------------------------------
(* Bulk wire format *)

\* Fault variant of FrameHeaderWords: the height is stored once, at offset 8 only
FrameHeaderWords_HeightOnce(h, l) ==
    LET b0 == Zeros(64)
        b1 == SetSlice(b0, 0, MAGIC)
        b2 == SetSlice(b1, 4, to_bytes_4_little(Words(2)))
        b3 == SetSlice(b2, 8, to_bytes_4_little(h))
        b5 == SetSlice(b3, 56, to_bytes_4_little(Words(2)))
        b6 == SetSlice(b5, 60, to_bytes_4_little(l))
    IN  b6

\* The 64-byte header send_frame builds, for a height and a payload length given as 16-bit halves
FrameHeaderWords(h, l) ==
    LET b0 == Zeros(64)
        b1 == SetSlice(b0, 0, MAGIC)
        b2 == SetSlice(b1, 4, to_bytes_4_little(Words(2)))
        b3 == SetSlice(b2, 8, to_bytes_4_little(h))
        b4 == SetSlice(b3, 12, to_bytes_4_little(h))
        b5 == SetSlice(b4, 56, to_bytes_4_little(Words(2)))
        b6 == SetSlice(b5, 60, to_bytes_4_little(l))
    IN  b6

FrameHeader(height, length) == FrameHeaderWords(Words(height), Words(length))

\* Fault variant of FullFrame: a terminator byte follows the payload
FullFrame_Terminated(height, frame_data) ==
    FrameHeaderWords(Words(height), Words(Len(frame_data))) \o frame_data \o <<0>>

\* header + frame_data
FullFrame(height, frame_data) == FrameHeader(height, Len(frame_data)) \o frame_data

\* Fault variant of InitCommand: the flag is stored at offset 60 instead of 56
InitCommand_FlagAt60 ==
    LET b0 == Zeros(64)
        b1 == SetSlice(b0, 0, MAGIC)
        b2 == SetSlice(b1, 4, to_bytes_4_little(Words(0)))
        b3 == SetSlice(b2, 60, to_bytes_4_little(Words(1)))
    IN  b3

\* The 64-byte initialization command of _enumerate_endpoints
InitCommand ==
    LET b0 == Zeros(64)
        b1 == SetSlice(b0, 0, MAGIC)
        b2 == SetSlice(b1, 4, to_bytes_4_little(Words(0)))
        b3 == SetSlice(b2, 56, to_bytes_4_little(Words(1)))
    IN  b3

----------------------------------------------------------------------------
(* Report (HID) wire format *)

\* The 512-byte zero-padded initialization buffer of HIDBackend.connect
\* Fault variant of InitBuffer: the flag byte is set whatever the length of the sequence
InitBuffer_FlagAlways(init_seq) ==
    SetSlice(SetSlice(Zeros(512), 0, init_seq), 12, <<1>>)

InitBuffer(init_seq) ==
    LET b0 == Zeros(512)
        b1 == SetSlice(b0, 0, init_seq)
    IN  IF Len(init_seq) > 4 THEN SetSlice(b1, 12, <<1>>) ELSE b1

\* Fault variant of Report: the payload without the leading zero byte
Report_NoPrefix(payload) == payload

\* bytes([0x00]) + payload
Report(payload) == <<0>> \o payload

----------------------------------------------------------------------------
(* Endpoint enumeration *)

EpAddresses == {1, 2, 129}
EpAttributes == {ENDPOINT_TYPE_BULK, ENDPOINT_TYPE_INTR}
EndpointDescs == [bEndpointAddress : EpAddresses, bmAttributes : EpAttributes]

RECURSIVE Flatten(_)
Flatten(cfg) == IF cfg = <<>> THEN <<>> ELSE Head(cfg) \o Flatten(Tail(cfg))

Min(a, b) == IF a < b THEN a ELSE b

\* Sequences of n endpoint descriptors with pairwise distinct addresses
RECURSIVE EndpointSeqs(_)
EndpointSeqs(n) ==
    IF n = 0 THEN {<<>>}
    ELSE UNION {{Append(eps, ep) : ep \in {e \in EndpointDescs :
                    \A i \in 1..Len(eps) : eps[i].bEndpointAddress # e.bEndpointAddress}} :
                eps \in EndpointSeqs(n - 1)}

\* The ways to list the endpoints eps, in order, under exactly k interfaces of at most
\* MaxEndpoints endpoints each
RECURSIVE InterfacesOver(_, _)
InterfacesOver(eps, k) ==
    IF k = 0 THEN (IF eps = <<>> THEN {<<>>} ELSE {})
    ELSE UNION {{<<SubSeq(eps, 1, n)>> \o rest :
                    rest \in InterfacesOver(SubSeq(eps, n + 1, Len(eps)), k - 1)} :
                n \in 0..Min(MaxEndpoints, Len(eps))}

\* The active configurations a device may expose: 1..MaxInterfaces interfaces in
\* enumeration order, endpoint addresses distinct across the configuration
Configs ==
    UNION {InterfacesOver(eps, k) :
             eps \in UNION {EndpointSeqs(n) : n \in 0..Cardinality(EpAddresses)},
             k \in 1..MaxInterfaces}

Endpoint(address, attributes) == [bEndpointAddress |-> address, bmAttributes |-> attributes]

\* The configurations of the main specification: no endpoint at all, IN only, one OUT,
\* the registered panel's layout (bulk OUT 0x01, bulk IN 0x81), two OUTs, two interfaces
SampleConfigs ==
    {<<<<>>>>,
     <<<<Endpoint(129, ENDPOINT_TYPE_BULK)>>>>,
     <<<<Endpoint(2, ENDPOINT_TYPE_INTR)>>>>,
     <<<<Endpoint(1, ENDPOINT_TYPE_BULK), Endpoint(129, ENDPOINT_TYPE_BULK)>>>>,
     <<<<Endpoint(1, ENDPOINT_TYPE_INTR), Endpoint(2, ENDPOINT_TYPE_BULK)>>>>,
     <<<<Endpoint(1, ENDPOINT_TYPE_BULK), Endpoint(2, ENDPOINT_TYPE_BULK)>>>>,
     <<<<Endpoint(129, ENDPOINT_TYPE_INTR)>>, <<Endpoint(2, ENDPOINT_TYPE_BULK)>>>>}

ConfigAddresses(cfg) == {Flatten(cfg)[i].bEndpointAddress : i \in 1..Len(Flatten(cfg))}

\* Fault variant of StoreEndpoint: the first OUT endpoint is kept, bulk or not
StoreEndpoint_FirstOutOnly(sel, ep) ==
    LET ep_addr == ep.bEndpointAddress
        direction == IF endpoint_direction(ep_addr) = ENDPOINT_IN THEN "IN" ELSE "OUT"
        out == IF direction = "OUT" /\ sel.out = None THEN ep_addr ELSE sel.out
        in == IF direction = "IN" /\ sel.in = None THEN ep_addr ELSE sel.in
    IN  [out |-> out, in |-> in]

\* Body of the endpoint loop: sel holds endpoint_out / endpoint_in so far
StoreEndpoint(sel, ep) ==
    LET ep_addr == ep.bEndpointAddress
        ep_type == endpoint_type(ep.bmAttributes)
        direction == IF endpoint_direction(ep_addr) = ENDPOINT_IN THEN "IN" ELSE "OUT"
        out == IF direction = "OUT" /\ (sel.out = None \/ ep_type = ENDPOINT_TYPE_BULK)
               THEN ep_addr ELSE sel.out
        in == IF direction = "IN" /\ sel.in = None THEN ep_addr ELSE sel.in
    IN  [out |-> out, in |-> in]

\* for ep in intf
RECURSIVE EnumerateInterface(_, _)
EnumerateInterface(intf, sel) ==
    IF intf = <<>> THEN sel
    ELSE EnumerateInterface(Tail(intf), StoreEndpoint(sel, Head(intf)))

\* for intf in cfg
RECURSIVE EnumerateConfig(_, _)
EnumerateConfig(cfg, sel) ==
    IF cfg = <<>> THEN sel
    ELSE EnumerateConfig(Tail(cfg), EnumerateInterface(Head(cfg), sel))

----------------------------------------------------------------------------
(* Call history *)

\* The backend fields as a call finds them
PreState ==
    [device |-> device, connected |-> connected,
     endpoint_out |-> endpoint_out, endpoint_in |-> endpoint_in]

\* One device.write(...) attempt: the handle and endpoint addressed, the bytes, and how it ended
WriteAttempt(h, ep, data, outcome) ==
    [handle |-> h, endpoint |-> ep, data |-> data, outcome |-> outcome]

NoConfig == <<>>

\* ret is "True", "False", or "None" (disconnect returns nothing); opened is the handle
\* a connect() obtained from open() / usb.core.find, detach and set_configuration tell how
\* the two preparatory steps of a Bulk connect() ended ("none": the step was not reached)
Call(op, ret, raised, writes, cfg, frame) ==
    [op |-> op, pre |-> PreState, ret |-> ret, raised |-> raised,
     writes |-> writes, enumerated |-> cfg # NoConfig, cfg |-> cfg, frame |-> frame,
     cleanup |-> "none", opened |-> None, detach |-> "none", set_configuration |-> "none"]

\* A connect() that obtained handle h
ConnectCall(h, ret, writes, cfg) ==
    [Call("connect", ret, FALSE, writes, cfg, <<>>) EXCEPT !.opened = h]

\* A disconnect() call; cleanup tells how close() / dispose_resources() ended:
\* "none" (no handle was held), "ok", or "raised" (the exception is logged and swallowed)
DisconnectCall(cleanup) ==
    [Call("disconnect", "None", FALSE, <<>>, NoConfig, <<>>) EXCEPT !.cleanup = cleanup]

----------------------------------------------------------------------------
(* DisplayBackend.__init__, HIDBackend.__init__, USBBulkBackend.__init__ *)

\* No thread is inside a call
Idle ==
    [pcS |-> "idle", pcD |-> "idle", dev |-> None, ret |-> "none", raised |-> FALSE,
     closed |-> None, frame |-> <<>>]

\* The fields the constructors set
Constructed ==
    /\ module = FALSE
    /\ device = None
    /\ connected = FALSE
    /\ endpoint_out = None
    /\ endpoint_in = None
    /\ nextHandle = 0
    /\ writeFailed = FALSE
    /\ unreleased = {}
    /\ handshook = None
    /\ race = Idle

Init ==
    /\ device_def \in DeviceDefs
    /\ lib \in BOOLEAN
    /\ Constructed
    /\ last = Call("init", "None", FALSE, <<>>, NoConfig, <<>>)

----------------------------------------------------------------------------
(* HIDBackend *)

\* Outcomes of device.write on the HID handle: every byte accepted ("ok"), a byte count
\* below the length of the report returned ("short"), -1 returned ("error"), an exception
HIDWriteOutcomes == {"ok", "short", "error", "raise"}

\* import hid fails
HIDConnectNoLib ==
    /\ ~lib
    /\ last' = Call("connect", "False", FALSE, <<>>, NoConfig, <<>>)
    /\ UNCHANGED <<device_def, lib, module, device, connected, endpoint_out, endpoint_in,
                   nextHandle, writeFailed>>

\* hid.device() creates handle h; open() raises
HIDConnectOpenRaises(h) ==
    /\ device' = None
    /\ last' = Call("connect", "False", FALSE, <<>>, NoConfig, <<>>)
    /\ UNCHANGED <<connected, writeFailed>>

\* open() succeeds; the initialization report, when one is defined, is written with the given outcome
HIDConnectOpened(h, outcome) ==
    LET init_seq == device_def.init_sequence
        writes == IF init_seq # <<>>
                  THEN <<WriteAttempt(h, None, Report(InitBuffer(init_seq)), outcome)>>
                  ELSE <<>>
        failed == init_seq # <<>> /\ (outcome = "raise" \/ Len(init_seq) > 512)
    IN  /\ init_seq = <<>> => outcome = "ok"
        /\ IF failed
           THEN /\ device' = None
                /\ last' = ConnectCall(h, "False",
                                       IF Len(init_seq) > 512 THEN <<>> ELSE writes, NoConfig)
                /\ UNCHANGED <<connected, writeFailed>>
           ELSE /\ device' = h
                /\ connected' = TRUE
                /\ writeFailed' = FALSE
                /\ last' = ConnectCall(h, "True", writes, NoConfig)

HIDConnect ==
    /\ IsHID
    /\ \/ HIDConnectNoLib
       \/ /\ lib
          /\ nextHandle < MaxHandles
          /\ nextHandle' = nextHandle + 1
          /\ module' = TRUE
          /\ \/ HIDConnectOpenRaises(nextHandle + 1)
             \/ \E outcome \in HIDWriteOutcomes : HIDConnectOpened(nextHandle + 1, outcome)
          /\ UNCHANGED <<device_def, lib, endpoint_out, endpoint_in>>

\* Fault variant of HIDDisconnect: the fields are reset only when close() returns
HIDDisconnect_NoFinally ==
    /\ IsHID
    /\ IF device # None
       THEN \E closeRaises \in BOOLEAN :
              /\ device' = IF closeRaises THEN device ELSE None
              /\ connected' = IF closeRaises THEN connected ELSE FALSE
              /\ last' = DisconnectCall(IF closeRaises THEN "raised" ELSE "ok")
       ELSE /\ last' = DisconnectCall("none")
            /\ UNCHANGED <<device, connected>>
    /\ UNCHANGED <<device_def, lib, module, endpoint_out, endpoint_in, nextHandle, writeFailed>>

HIDDisconnect ==
    /\ IsHID
    /\ IF device # None
       THEN \E closeRaises \in BOOLEAN :
              /\ device' = None
              /\ connected' = FALSE
              /\ last' = DisconnectCall(IF closeRaises THEN "raised" ELSE "ok")
       ELSE /\ last' = DisconnectCall("none")
            /\ UNCHANGED <<device, connected>>
    /\ UNCHANGED <<device_def, lib, module, endpoint_out, endpoint_in, nextHandle, writeFailed>>

HIDSendFrame(frame_data) ==
    /\ IsHID
    /\ IF device = None
       THEN /\ last' = Call("send_frame", "False", FALSE, <<>>, NoConfig, frame_data)
            /\ UNCHANGED <<connected, writeFailed>>
       ELSE \E outcome \in HIDWriteOutcomes :
              LET writes == <<WriteAttempt(device, None, Report(frame_data), outcome)>>
              IN  IF outcome # "raise"
                  THEN /\ last' = Call("send_frame", "True", FALSE, writes, NoConfig, frame_data)
                       /\ UNCHANGED <<connected, writeFailed>>
                  ELSE /\ connected' = FALSE
                       /\ writeFailed' = TRUE
                       /\ last' = Call("send_frame", "False", FALSE, writes, NoConfig, frame_data)
    /\ UNCHANGED <<device_def, lib, module, device, endpoint_out, endpoint_in, nextHandle>>

\* HIDBackend.is_connected()
HIDIsConnectedResult == connected /\ device # None

HIDIsConnected ==
    /\ IsHID
    /\ last' = Call("is_connected", IF HIDIsConnectedResult THEN "True" ELSE "False",
                    FALSE, <<>>, NoConfig, <<>>)
    /\ UNCHANGED <<device_def, lib, module, device, connected, endpoint_out, endpoint_in,
                   nextHandle, writeFailed>>

----------------------------------------------------------------------------
(* USBBulkBackend *)

\* Outcomes of device.write on the bulk device: every byte accepted ("ok"), a byte count
\* below the length of the data returned ("short"), usb.core.USBError, any other exception
BulkWriteOutcomes == {"ok", "short", "USBError", "Exception"}

\* The outcomes in which device.write raises
Raising == {"raise", "USBError", "Exception"}

\* device.write raises (ValueError / TypeError) before any transfer when the endpoint is
\* None or is not an endpoint address of the device's active configuration
WriteOutcomesAt(cfg, ep) ==
    IF ep \in ConfigAddresses(cfg) THEN BulkWriteOutcomes ELSE {"Exception"}

\* import usb.core fails
BulkConnectNoLib ==
    /\ ~lib
    /\ last' = Call("connect", "False", FALSE, <<>>, NoConfig, <<>>)
    /\ UNCHANGED <<device_def, lib, module, device, connected, endpoint_out, endpoint_in,
                   nextHandle, writeFailed>>

\* Fault variant of BulkConnectNotFound: the handle field is left as it was
BulkConnectNotFound_KeepsHandle ==
    /\ last' = Call("connect", "False", FALSE, <<>>, NoConfig, <<>>)
    /\ UNCHANGED <<device, connected, endpoint_out, endpoint_in, nextHandle, writeFailed>>

\* usb.core.find returns None (or raises): self.device ends up None
BulkConnectNotFound ==
    /\ device' = None
    /\ last' = Call("connect", "False", FALSE, <<>>, NoConfig, <<>>)
    /\ UNCHANGED <<connected, endpoint_out, endpoint_in, nextHandle, writeFailed>>

\* How the kernel-driver step can end: no driver is active on interface 0, the active
\* driver is detached, or is_kernel_driver_active / detach_kernel_driver raises
\* NotImplementedError (no such capability on the platform) or usb.core.USBError
DetachOutcomes == {"inactive", "detached", "NotImplementedError", "USBError"}

\* How set_configuration() can end
SetConfigurationOutcomes == {"ok", "USBError"}

\* Fault variant of PrefaceRaises: a failure of set_configuration() is not caught
PrefaceRaises_ConfigurationFatal(detach, set_configuration) ==
    set_configuration # "ok"

\* Whether an exception leaves the two try blocks before _enumerate_endpoints: the first
\* catches NotImplementedError and USBError, the second USBError
PrefaceRaises(detach, set_configuration) ==
    \/ detach \notin {"inactive", "detached", "NotImplementedError", "USBError"}
    \/ set_configuration \notin {"ok", "USBError"}

\* A connect() that found device h and went through both preparatory steps
FoundCall(h, detach, set_configuration, ret, writes, cfg) ==
    [ConnectCall(h, ret, writes, cfg) EXCEPT !.detach = detach,
                                              !.set_configuration = set_configuration]

\* device h found; get_active_configuration() raises inside _enumerate_endpoints
BulkConnectNoConfiguration(h, detach, set_configuration) ==
    /\ nextHandle' = h
    /\ device' = None
    /\ last' = FoundCall(h, detach, set_configuration, "False", <<>>, NoConfig)
    /\ UNCHANGED <<connected, endpoint_out, endpoint_in, writeFailed>>

\* Fault variant of EnumerateEndpoints: a failed write is logged but not raised again
EnumerateEndpoints_SwallowsError(cfg, out, in, h, outcome) ==
    LET sel == EnumerateConfig(cfg, [out |-> out, in |-> in])
    IN  [out |-> sel.out, in |-> sel.in,
         writes |-> <<WriteAttempt(h, sel.out, InitCommand, outcome)>>,
         raised |-> FALSE]

\* _enumerate_endpoints over cfg: the selection, then the write of the initialization command
\* (the exception of a failed write is logged and raised again)
EnumerateEndpoints(cfg, out, in, h, outcome) ==
    LET sel == EnumerateConfig(cfg, [out |-> out, in |-> in])
    IN  [out |-> sel.out, in |-> sel.in,
         writes |-> <<WriteAttempt(h, sel.out, InitCommand, outcome)>>,
         raised |-> outcome \in {"USBError", "Exception"}]

\* device h found, its active configuration being cfg: the preparatory steps, then
\* _enumerate_endpoints
BulkConnectEnumerated(h, cfg, detach, set_configuration) ==
    \E outcome \in WriteOutcomesAt(cfg, EnumerateConfig(cfg, [out |-> endpoint_out,
                                                              in |-> endpoint_in]).out) :
      LET r == EnumerateEndpoints(cfg, endpoint_out, endpoint_in, h, outcome)
      IN  /\ nextHandle' = h
          /\ IF PrefaceRaises(detach, set_configuration)
             THEN /\ device' = None
                  /\ last' = [FoundCall(h, detach, set_configuration, "False", <<>>, cfg)
                                 EXCEPT !.enumerated = FALSE]
                  /\ UNCHANGED <<connected, endpoint_out, endpoint_in, writeFailed>>
             ELSE /\ endpoint_out' = r.out
                  /\ endpoint_in' = r.in
                  /\ IF r.raised
                     THEN /\ device' = None
                          /\ last' = FoundCall(h, detach, set_configuration, "False",
                                               r.writes, cfg)
                          /\ UNCHANGED <<connected, writeFailed>>
                     ELSE /\ device' = h
                          /\ connected' = TRUE
                          /\ writeFailed' = FALSE
                          /\ last' = FoundCall(h, detach, set_configuration, "True",
                                               r.writes, cfg)

\* How the two preparatory steps end together: every combination, and the two the main
\* specification draws from (a platform where both work, one where both fail)
Prefaces == DetachOutcomes \X SetConfigurationOutcomes
SamplePrefaces == {<<"inactive", "ok">>, <<"NotImplementedError", "USBError">>}

\* connect() against a device whose active configuration is one of configs and whose
\* preparatory steps end as one of prefaces
BulkConnectOver(configs, prefaces) ==
    /\ IsBulk
    /\ \/ BulkConnectNoLib
       \/ /\ lib
          /\ module' = TRUE
          /\ \/ BulkConnectNotFound
             \/ /\ nextHandle < MaxHandles
                /\ \E pre \in prefaces :
                     \/ BulkConnectNoConfiguration(nextHandle + 1, pre[1], pre[2])
                     \/ \E cfg \in configs :
                          BulkConnectEnumerated(nextHandle + 1, cfg, pre[1], pre[2])
          /\ UNCHANGED <<device_def, lib>>

BulkConnect == BulkConnectOver(SampleConfigs, SamplePrefaces)

BulkDisconnect ==
    /\ IsBulk
    /\ IF device # None
       THEN \E disposeRaises \in BOOLEAN :
              /\ device' = None
              /\ connected' = FALSE
              /\ endpoint_out' = None
              /\ endpoint_in' = None
              /\ last' = DisconnectCall(IF disposeRaises \/ ~module THEN "raised" ELSE "ok")
       ELSE /\ last' = DisconnectCall("none")
            /\ UNCHANGED <<device, connected, endpoint_out, endpoint_in>>
    /\ UNCHANGED <<device_def, lib, module, nextHandle, writeFailed>>

BulkSendFrame(frame_data) ==
    /\ IsBulk
    /\ IF device = None \/ Falsy(endpoint_out)
       THEN /\ last' = Call("send_frame", "False", FALSE, <<>>, NoConfig, frame_data)
            /\ UNCHANGED <<connected, writeFailed>>
       ELSE \E outcome \in BulkWriteOutcomes :
              LET full_frame == FullFrame(device_def.height, frame_data)
                  writes == <<WriteAttempt(device, endpoint_out, full_frame, outcome)>>
              IN  CASE outcome \in {"ok", "short"} ->
                         /\ last' = Call("send_frame", "True", FALSE, writes, NoConfig, frame_data)
                         /\ UNCHANGED <<connected, writeFailed>>
                    [] outcome = "USBError" ->
                         /\ connected' = FALSE
                         /\ writeFailed' = TRUE
                         /\ last' = Call("send_frame", "False", ~module, writes, NoConfig, frame_data)
                    [] outcome = "Exception" ->
                         /\ writeFailed' = TRUE
                         /\ last' = Call("send_frame", "False", ~module, writes, NoConfig, frame_data)
                         /\ UNCHANGED connected
    /\ UNCHANGED <<device_def, lib, module, device, endpoint_out, endpoint_in, nextHandle>>

\* USBBulkBackend.is_connected(), given whether reading device.idVendor raises
BulkIsConnectedResult(readRaises) == IF device = None THEN FALSE ELSE ~readRaises

BulkIsConnected ==
    /\ IsBulk
    /\ \E readRaises \in BOOLEAN :
         last' = Call("is_connected", IF BulkIsConnectedResult(readRaises) THEN "True" ELSE "False",
                      FALSE, <<>>, NoConfig, <<>>)
    /\ UNCHANGED <<device_def, lib, module, device, connected, endpoint_out, endpoint_in,
                   nextHandle, writeFailed>>

----------------------------------------------------------------------------
(* The caller: any serialized sequence of calls on the backend create_backend returned *)

\* The history variables after a connect(): the handle it obtained is unreleased, and it
\* is the handshaken one iff the initialization write was accepted in full
ConnectHistory ==
    /\ unreleased' = IF last'.opened # None THEN unreleased \cup {last'.opened} ELSE unreleased
    /\ handshook' = IF last'.writes # <<>> /\ last'.writes[1].outcome = "ok"
                    THEN last'.opened ELSE None
    /\ UNCHANGED race

\* The history variables after a disconnect(): the handle close() / dispose_resources() was
\* called on is released
DisconnectHistory ==
    /\ unreleased' = IF last'.cleanup # "none" THEN unreleased \ {last'.pre.device}
                     ELSE unreleased
    /\ handshook' = None
    /\ UNCHANGED race

Connect == (HIDConnect \/ BulkConnect) /\ ConnectHistory
Disconnect == (HIDDisconnect \/ BulkDisconnect) /\ DisconnectHistory
SendFrame ==
    /\ \E frame_data \in Frames : HIDSendFrame(frame_data) \/ BulkSendFrame(frame_data)
    /\ UNCHANGED <<unreleased, handshook, race>>
IsConnected == (HIDIsConnected \/ BulkIsConnected) /\ UNCHANGED <<unreleased, handshook, race>>

Next == Connect \/ Disconnect \/ SendFrame \/ IsConnected

Spec == Init /\ [][Next]_vars

----------------------------------------------------------------------------
(* disconnect() on one thread and send_frame() on another, without serialization: the
   threads interleave at every read and every assignment of a backend field.  A run makes
   sequential connect() / send_frame() calls, then starts the two threads once. *)

\* What neither thread assigns
RaceFrame == UNCHANGED <<device_def, lib, module, nextHandle, writeFailed, last, handshook>>

\* Both calls are entered
RaceStart ==
    /\ race = Idle
    /\ \E frame_data \in Frames :
         last' = Call("race", "None", FALSE, <<>>, NoConfig, frame_data)
    /\ race' = [Idle EXCEPT !.pcS = "check", !.pcD = "check"]
    /\ UNCHANGED <<device_def, lib, module, device, connected, endpoint_out, endpoint_in,
                   nextHandle, writeFailed, unreleased, handshook>>

\* send_frame returns ret
Returns(ret) == [race EXCEPT !.pcS = "done", !.ret = ret]

\* send_frame: "if not self.device"
SendCheckDevice ==
    /\ race.pcS = "check"
    /\ race' = IF device = None THEN Returns("False")
               ELSE [race EXCEPT !.pcS = IF IsBulk THEN "check_ep" ELSE "load"]
    /\ RaceFrame
    /\ UNCHANGED <<device, connected, endpoint_out, endpoint_in, unreleased>>

\* USBBulkBackend.send_frame: "or not self.endpoint_out"
SendCheckEndpoint ==
    /\ race.pcS = "check_ep"
    /\ race' = IF Falsy(endpoint_out) THEN Returns("False") ELSE [race EXCEPT !.pcS = "load"]
    /\ RaceFrame
    /\ UNCHANGED <<device, connected, endpoint_out, endpoint_in, unreleased>>

\* send_frame: self.device is read for the write; on None the attribute lookup raises
\* AttributeError inside the try block (HIDBackend: connected = False; USBBulkBackend: the
\* generic except clause)
SendLoadDevice ==
    /\ race.pcS = "load"
    /\ IF device = None
       THEN /\ race' = Returns("False")
            /\ connected' = IF IsHID THEN FALSE ELSE connected
       ELSE /\ race' = [race EXCEPT !.pcS = "write", !.dev = device]
            /\ UNCHANGED connected
    /\ RaceFrame
    /\ UNCHANGED <<device, endpoint_out, endpoint_in, unreleased>>

\* Outcomes of the write of the racing send_frame: a closed HID handle raises; a disposed
\* bulk device is opened again by the write; a bulk write to endpoint None raises
RaceWriteOutcomes ==
    IF IsHID THEN (IF race.dev = race.closed THEN {"raise"} ELSE HIDWriteOutcomes)
    ELSE (IF endpoint_out = None THEN {"Exception"} ELSE BulkWriteOutcomes)

\* send_frame: the write on the handle read, and the except clauses
SendWrite ==
    /\ race.pcS = "write"
    /\ \E outcome \in RaceWriteOutcomes :
         /\ race' = Returns(IF outcome \in Raising THEN "False" ELSE "True")
         /\ connected' = IF outcome \in {"raise", "USBError"} THEN FALSE ELSE connected
    /\ RaceFrame
    /\ UNCHANGED <<device, endpoint_out, endpoint_in, unreleased>>

\* disconnect: "if self.device"
DisconnectCheck ==
    /\ race.pcD = "check"
    /\ race' = [race EXCEPT !.pcD = IF device = None THEN "done" ELSE "close"]
    /\ RaceFrame
    /\ UNCHANGED <<device, connected, endpoint_out, endpoint_in, unreleased>>

\* disconnect: close() / dispose_resources() on the handle held, raising or not
DisconnectClose ==
    /\ race.pcD = "close"
    /\ race' = [race EXCEPT !.pcD = "clear_device", !.closed = device]
    /\ unreleased' = unreleased \ {device}
    /\ RaceFrame
    /\ UNCHANGED <<device, connected, endpoint_out, endpoint_in>>

\* disconnect, finally: self.device = None
DisconnectClearDevice ==
    /\ race.pcD = "clear_device"
    /\ device' = None
    /\ race' = [race EXCEPT !.pcD = "clear_connected"]
    /\ RaceFrame
    /\ UNCHANGED <<connected, endpoint_out, endpoint_in, unreleased>>

\* disconnect, finally: self.connected = False
DisconnectClearConnected ==
    /\ race.pcD = "clear_connected"
    /\ connected' = FALSE
    /\ race' = [race EXCEPT !.pcD = IF IsBulk THEN "clear_out" ELSE "done"]
    /\ RaceFrame
    /\ UNCHANGED <<device, endpoint_out, endpoint_in, unreleased>>

\* USBBulkBackend.disconnect, finally: self.endpoint_out = None
DisconnectClearOut ==
    /\ race.pcD = "clear_out"
    /\ endpoint_out' = None
    /\ race' = [race EXCEPT !.pcD = "clear_in"]
    /\ RaceFrame
    /\ UNCHANGED <<device, connected, endpoint_in, unreleased>>

\* USBBulkBackend.disconnect, finally: self.endpoint_in = None
DisconnectClearIn ==
    /\ race.pcD = "clear_in"
    /\ endpoint_in' = None
    /\ race' = [race EXCEPT !.pcD = "done"]
    /\ RaceFrame
    /\ UNCHANGED <<device, connected, endpoint_out, unreleased>>

SendThread == SendCheckDevice \/ SendCheckEndpoint \/ SendLoadDevice \/ SendWrite

DisconnectThread ==
    \/ DisconnectCheck
    \/ DisconnectClose
    \/ DisconnectClearDevice
    \/ DisconnectClearConnected
    \/ DisconnectClearOut
    \/ DisconnectClearIn

RaceNext ==
    \/ race = Idle /\ (Connect \/ SendFrame)
    \/ RaceStart
    \/ SendThread
    \/ DisconnectThread

SpecRace == Init /\ [][RaceNext]_vars

----------------------------------------------------------------------------
(* Endpoint selection on a fresh backend: the first connect(), over every configuration *)

FreshConnect ==
    /\ last.op = "init"
    /\ BulkConnectOver(Configs, Prefaces)
    /\ ConnectHistory

SpecFresh == Init /\ [][FreshConnect]_vars

----------------------------------------------------------------------------
(* The initialization report: the first connect() of a HID backend, over identities whose
   initialization sequence is empty, shorter or longer than 4 bytes, shorter or longer
   than the offset of the flag byte, or fills the buffer *)

InitLengths == {0, 1, 4, 5, 12, 13, 14, 512}
InitBytes == {1, 218, 255}
InitSequences == {[i \in 1..n |-> b] : n \in InitLengths, b \in InitBytes}
HIDInitDefs == {[Trofeo EXCEPT !.init_sequence = init_seq] : init_seq \in InitSequences}

HIDFreshInit ==
    /\ device_def \in HIDInitDefs
    /\ lib \in BOOLEAN
    /\ Constructed
    /\ last = Call("init", "None", FALSE, <<>>, NoConfig, <<>>)

HIDFreshConnect ==
    /\ last.op = "init"
    /\ HIDConnect
    /\ ConnectHistory

SpecHIDFresh == HIDFreshInit /\ [][HIDFreshConnect]_vars

----------------------------------------------------------------------------
(* Header encoding over the 32-bit range: heights and payload lengths as 16-bit halves *)

HalfSamples == {0, 1, 255, 256, 32768, 65535}
Uint32Samples == [hi : HalfSamples, lo : HalfSamples]

HeaderInit ==
    /\ device_def = FW360
    /\ lib = TRUE
    /\ Constructed
    /\ \E h \in Uint32Samples, l \in Uint32Samples :
         last = [op |-> "init", height |-> h, length |-> l, header |-> <<>>]

\* The header construction of send_frame applied to the drawn height and length
BuildHeader ==
    /\ last.op = "init"
    /\ last' = [last EXCEPT !.op = "header",
                            !.header = FrameHeaderWords(last.height, last.length)]
    /\ UNCHANGED <<device_def, lib, module, device, connected, endpoint_out, endpoint_in,
                   nextHandle, writeFailed, unreleased, handshook, race>>

SpecHeader == HeaderInit /\ [][BuildHeader]_vars

----------------------------------------------------------------------------
(* Registry lookup, backend factory and device enumeration *)

\* Optional[x] as a sequence: <<>> for None, <<x>> for a value
Nothing == <<>>
Some(x) == <<x>>

\* "x in seq" / "x not in seq" on a Python list
In(x, seq) == \E k \in 1..Len(seq) : seq[k] = x

\* Fault variant of find_device_definition: the product id is not compared
find_device_definition_VendorOnly(vid, pid) ==
    LET matches == {i \in 1..Len(SUPPORTED_DEVICES) : SUPPORTED_DEVICES[i].vendor_id = vid}
    IN  IF matches = {} THEN Nothing
        ELSE Some(SUPPORTED_DEVICES[CHOOSE i \in matches : \A j \in matches : i <= j])

\* find_device_definition: the first entry of SUPPORTED_DEVICES with this vid and pid
find_device_definition(vid, pid) ==
    LET matches == {i \in 1..Len(SUPPORTED_DEVICES) :
                       /\ SUPPORTED_DEVICES[i].vendor_id = vid
                       /\ SUPPORTED_DEVICES[i].product_id = pid}
    IN  IF matches = {} THEN Nothing
        ELSE Some(SUPPORTED_DEVICES[CHOOSE i \in matches : \A j \in matches : i <= j])

\* The backend objects as their constructors leave them
HIDBackend(d) ==
    [class |-> "HIDBackend", device_def |-> d, connected |-> FALSE, device |-> None,
     module |-> FALSE]

USBBulkBackend(d) ==
    [class |-> "USBBulkBackend", device_def |-> d, connected |-> FALSE, device |-> None,
     module |-> FALSE, endpoint_out |-> None, endpoint_in |-> None]

\* The dictionary of create_backend, from backend type to backend class
backend_map == [hid |-> "HIDBackend", usb_bulk |-> "USBBulkBackend"]

\* backend_class(device_def)
Construct(class, d) == IF class = "HIDBackend" THEN HIDBackend(d) ELSE USBBulkBackend(d)

\* create_backend: the instance (None for a backend type outside backend_map), the level
\* of the message logged, and whether an exception reaches the caller
create_backend(d) ==
    IF d.backend_type \in DOMAIN backend_map
    THEN [backend |-> Some(Construct(backend_map[d.backend_type], d)),
          logged |-> "none", raised |-> FALSE]
    ELSE [backend |-> Nothing, logged |-> "error", raised |-> FALSE]

\* Fault variant of HIDStep: the backend type of the definition found is not compared
HIDStep_AnyKind(available, hid_dev) ==
    LET found == find_device_definition(hid_dev.vendor_id, hid_dev.product_id)
    IN  IF found # Nothing /\ ~In(found[1], available)
        THEN Append(available, found[1])
        ELSE available

\* One iteration of the loop over hid.enumerate()
HIDStep(available, hid_dev) ==
    LET found == find_device_definition(hid_dev.vendor_id, hid_dev.product_id)
    IN  IF found # Nothing /\ found[1].backend_type = "hid" /\ ~In(found[1], available)
        THEN Append(available, found[1])
        ELSE available

RECURSIVE ScanHID(_, _)
ScanHID(listing, available) ==
    IF listing = <<>> THEN available
    ELSE ScanHID(Tail(listing), HIDStep(available, Head(listing)))

\* One iteration of the loop over SUPPORTED_DEVICES: usb.core.find returns a device iff
\* one with this vid and pid is attached
USBStep(available, d, present) ==
    IF /\ d.backend_type = "usb_bulk"
       /\ [vendor_id |-> d.vendor_id, product_id |-> d.product_id] \in present
       /\ ~In(d, available)
    THEN Append(available, d)
    ELSE available

RECURSIVE ScanUSB(_, _, _)
ScanUSB(i, present, available) ==
    IF i > Len(SUPPORTED_DEVICES) THEN available
    ELSE ScanUSB(i + 1, present, USBStep(available, SUPPORTED_DEVICES[i], present))

\* Fault variant of enumerate_available_devices: a failure of the HID layer reaches the caller
enumerate_available_devices_Propagates(hid, usb) ==
    IF hid.state # "ok" THEN [available |-> <<>>, raised |-> TRUE]
    ELSE [available |-> IF usb.state = "ok"
                        THEN ScanUSB(1, usb.present, ScanHID(hid.listing, <<>>))
                        ELSE ScanHID(hid.listing, <<>>),
          raised |-> FALSE]

\* enumerate_available_devices against a HID layer and a USB layer, each of which is "ok",
\* "missing" (the import fails) or "raises" (enumerate / find raises)
enumerate_available_devices(hid, usb) ==
    LET afterHID == IF hid.state = "ok" THEN ScanHID(hid.listing, <<>>) ELSE <<>>
        afterUSB == IF usb.state = "ok" THEN ScanUSB(1, usb.present, afterHID) ELSE afterHID
    IN  [available |-> afterUSB, raised |-> FALSE]

MaxListing == 2        \* entries of a HID listing

\* Arguments of the lookups: both registered ids, the ids of one entry crossed with the
\* other's, and ids of no entry
VendorIds == {1046, 34733, 0, 65535}
ProductIds == {21250, 28891, 28892, 0, 65535}

\* Identities handed to the factory: the registry entries and WidePanel, each also
\* declared with a backend type the factory does not know
BackendTypes == {"hid", "usb_bulk", "serial", "HID", ""}
FactoryInputs ==
    {[d EXCEPT !.backend_type = k, !.experimental = e] :
        d \in DeviceDefs, k \in BackendTypes, e \in BOOLEAN}

\* Entries of hid.enumerate() and devices usb.core.find can see
AttachedIds ==
    {[vendor_id |-> 1046, product_id |-> 21250], [vendor_id |-> 34733, product_id |-> 28891],
     [vendor_id |-> 1046, product_id |-> 28891], [vendor_id |-> 34733, product_id |-> 28892]}

RECURSIVE Listings(_)
Listings(n) ==
    IF n = 0 THEN {<<>>}
    ELSE Listings(n - 1) \cup {Append(l, e) : l \in {x \in Listings(n - 1) : Len(x) = n - 1},
                                                e \in AttachedIds}

HIDLayers ==
    {[state |-> "ok", listing |-> l] : l \in Listings(MaxListing)}
        \cup {[state |-> st, listing |-> <<>>] : st \in {"missing", "raises"}}

USBLayers ==
    {[state |-> "ok", present |-> pr] : pr \in SUBSET AttachedIds}
        \cup {[state |-> st, present |-> pr] :
                 st \in {"missing", "raises"}, pr \in SUBSET AttachedIds}

\* Each run applies one of the three functions, once, to arguments drawn from the sets above
RegistryInit ==
    /\ device_def = Trofeo
    /\ lib = TRUE
    /\ Constructed
    /\ last = [op |-> "init"]

FindDeviceDefinition ==
    /\ last.op = "init"
    /\ \E vid \in VendorIds, pid \in ProductIds :
         last' = [op |-> "find_device_definition", vid |-> vid, pid |-> pid,
                  result |-> find_device_definition(vid, pid)]
    /\ UNCHANGED <<device_def, lib, module, device, connected, endpoint_out, endpoint_in,
                   nextHandle, writeFailed, unreleased, handshook, race>>

CreateBackend ==
    /\ last.op = "init"
    /\ \E d \in FactoryInputs :
         last' = [op |-> "create_backend", arg |-> d, result |-> create_backend(d)]
    /\ UNCHANGED <<device_def, lib, module, device, connected, endpoint_out, endpoint_in,
                   nextHandle, writeFailed, unreleased, handshook, race>>

EnumerateAvailableDevices ==
    /\ last.op = "init"
    /\ \E hid \in HIDLayers, usb \in USBLayers :
         last' = [op |-> "enumerate_available_devices", hid |-> hid, usb |-> usb,
                  result |-> enumerate_available_devices(hid, usb)]
    /\ UNCHANGED <<device_def, lib, module, device, connected, endpoint_out, endpoint_in,
                   nextHandle, writeFailed, unreleased, handshook, race>>

RegistryNext == FindDeviceDefinition \/ CreateBackend \/ EnumerateAvailableDevices

SpecRegistry == RegistryInit /\ [][RegistryNext]_vars

----------------------------------------------------------------------------
(* Vocabulary of the properties *)

IsByteString(b) == \A i \in 1..Len(b) : b[i] \in 0..255

\* The layout of a frame header for height h and payload length l (16-bit halves)
HeaderLayout(hdr, h, l) ==
    /\ Len(hdr) = 64
    /\ IsByteString(hdr)
    /\ SubSeq(hdr, 1, 4) = <<18, 52, 86, 120>>
    /\ SubSeq(hdr, 5, 8) = <<2, 0, 0, 0>>
    /\ FromLittle(SubSeq(hdr, 9, 12)) = h
    /\ FromLittle(SubSeq(hdr, 13, 16)) = h
    /\ \A i \in 17..56 : hdr[i] = 0
    /\ SubSeq(hdr, 57, 60) = <<2, 0, 0, 0>>
    /\ FromLittle(SubSeq(hdr, 61, 64)) = l

\* The layout of the initialization command
InitLayout(cmd) ==
    /\ Len(cmd) = 64
    /\ SubSeq(cmd, 1, 4) = <<18, 52, 86, 120>>
    /\ \A i \in 5..56 : cmd[i] = 0
    /\ SubSeq(cmd, 57, 60) = <<1, 0, 0, 0>>
    /\ \A i \in 61..64 : cmd[i] = 0

\* is_connected() would return False now, whatever the descriptor read does
NotConnectedNow ==
    IF IsHID THEN ~HIDIsConnectedResult
    ELSE \A readRaises \in BOOLEAN : ~BulkIsConnectedResult(readRaises)

\* The backend fields are as the constructor left them when the last call began
FreshCall ==
    last.pre = [device |-> None, connected |-> FALSE, endpoint_out |-> None, endpoint_in |-> None]

IsOut(ep) == endpoint_direction(ep.bEndpointAddress) = ENDPOINT_OUT
IsBulkType(ep) == endpoint_type(ep.bmAttributes) = ENDPOINT_TYPE_BULK

\* The OUT endpoints of a configuration, in enumeration order
OutEndpoints(cfg) == SelectSeq(Flatten(cfg), IsOut)

\* The registry as a set, and the (vendor id, product id) of an identity
Registry == {SUPPORTED_DEVICES[i] : i \in 1..Len(SUPPORTED_DEVICES)}
Pair(d) == [vendor_id |-> d.vendor_id, product_id |-> d.product_id]

\* Identity d is attached as seen through the layer of its own transport kind
PresentThroughOwnKind(d, hid, usb) ==
    CASE d.backend_type = "hid" -> In(Pair(d), hid.listing)
      [] d.backend_type = "usb_bulk" -> Pair(d) \in usb.present
      [] OTHER -> FALSE

\* The write of the last call raised
LastWriteRaised == last.writes # <<>> /\ last.writes[Len(last.writes)].outcome \in Raising

----------------------------------------------------------------------------
(* Properties *)

\* C1 (as claimed): whenever the connected flag is false when send_frame is called, on either
\* backend, send_frame returns failure, raises nothing and issues no write to the device.
C1_SendWhileDisconnectedFails ==
    (last.op = "send_frame" /\ ~last.pre.connected)
        => (last.ret = "False" /\ ~last.raised /\ last.writes = <<>>)

\* C2 (as claimed): on either backend a send_frame whose write raises returns failure, and
\* is_connected() returns false from then on until the next successful connect().
C2_WriteFailureDisconnects ==
    /\ (last.op = "send_frame" /\ LastWriteRaised) => last.ret = "False"
    /\ writeFailed => NotConnectedNow

\* C3: on either backend disconnect() never raises and leaves is_connected() false, in every
\* context (before any connect, after a failed connect, twice in a row, close/dispose
\* raising), and a disconnect() that directly follows a disconnect() changes no field.
C3_DisconnectIdempotent ==
    /\ [](last.op = "disconnect" => (~last.raised /\ NotConnectedNow))
    /\ [][(last.op = "disconnect" /\ last'.op = "disconnect")
            => UNCHANGED <<module, device, connected, endpoint_out, endpoint_in,
                           nextHandle, writeFailed>>]_vars

\* C3 witness: a disconnect() on a connected backend whose close/dispose raised
C3_Witness ==
    /\ last.op = "disconnect"
    /\ last.cleanup = "raised"
    /\ last.pre.connected
    /\ device = None

\* C4 (as claimed): a Bulk connect() that finds the device and enumerates a configuration
\* without OUT endpoint returns success, and a send_frame made while no OUT endpoint is
\* selected returns failure without raising and without writing.
C4_NoOutEndpointConnects ==
    /\ (last.op = "connect" /\ IsBulk /\ last.enumerated /\ OutEndpoints(last.cfg) = <<>>)
          => last.ret = "True"
    /\ (last.op = "send_frame" /\ IsBulk /\ last.pre.endpoint_out = None)
          => (last.ret = "False" /\ ~last.raised /\ last.writes = <<>>)

\* The OUT endpoint the selection policy names: the first bulk OUT endpoint in enumeration
\* order, else the first OUT endpoint, else none
PolicyOut(cfg) ==
    LET outs == OutEndpoints(cfg)
        bulks == SelectSeq(outs, IsBulkType)
    IN  IF bulks # <<>> THEN Head(bulks).bEndpointAddress
        ELSE IF outs # <<>> THEN Head(outs).bEndpointAddress
        ELSE None

\* C5 (as claimed): after connect() on a fresh Bulk backend has enumerated a configuration,
\* the selected OUT endpoint is the first bulk OUT endpoint in enumeration order if there
\* is one, and the first OUT endpoint otherwise.
C5_FirstBulkOutSelected ==
    (last.op = "connect" /\ last.enumerated /\ FreshCall) => endpoint_out = PolicyOut(last.cfg)

\* C6: after connect() on a fresh Bulk backend has enumerated a configuration whose OUT
\* endpoints are an interrupt one followed by a bulk one, the bulk one is selected; when
\* the configuration has exactly one OUT endpoint, of any type, that one is selected.
C6_SelectionExamples ==
    (last.op = "connect" /\ last.enumerated /\ FreshCall) =>
        LET outs == OutEndpoints(last.cfg)
        IN  /\ (Len(outs) = 2 /\ ~IsBulkType(outs[1]) /\ IsBulkType(outs[2]))
                  => endpoint_out = outs[2].bEndpointAddress
            /\ Len(outs) = 1 => endpoint_out = outs[1].bEndpointAddress

\* C6 witness: the fresh connect() enumerated one interface listing an interrupt OUT
\* endpoint and then a bulk OUT endpoint
C6_Witness ==
    /\ last.op = "connect"
    /\ FreshCall
    /\ last.cfg = <<<<Endpoint(1, ENDPOINT_TYPE_INTR), Endpoint(2, ENDPOINT_TYPE_BULK)>>>>
    /\ endpoint_out = 2

C8_OneWritePerFrame ==
    (last.op = "send_frame" /\ IsBulk) =>
        IF last.pre.device # None /\ ~Falsy(last.pre.endpoint_out)
        THEN /\ Len(last.writes) = 1
             /\ LET w == last.writes[1]
                IN  /\ w.handle = last.pre.device
                    /\ w.endpoint = last.pre.endpoint_out
                    /\ Len(w.data) = 64 + Len(last.frame)
                    /\ HeaderLayout(SubSeq(w.data, 1, 64), Words(device_def.height),
                                    Words(Len(last.frame)))
                    /\ SubSeq(w.data, 65, Len(w.data)) = last.frame
        ELSE last.writes = <<>>

\* C8 witness: a non-empty frame was written and accepted
C8_Witness ==
    /\ last.op = "send_frame"
    /\ IsBulk
    /\ Len(last.frame) > 0
    /\ Len(last.writes) = 1
    /\ last.writes[1].outcome = "ok"

\* C9: a Bulk connect() that reaches the handshake (device found, configuration
\* enumerated) makes exactly one write, on the handle just found, addressed to the OUT
\* endpoint the selection left in endpoint_out, of the 64-byte initialization command
\* 12 34 56 78, zeros at 4-55, 01 00 00 00 at 56-59, zeros at 60-63; a connect() that
\* stops earlier writes nothing.
C9_OneInitCommand ==
    (last.op = "connect" /\ IsBulk) =>
        IF last.enumerated
        THEN /\ Len(last.writes) = 1
             /\ last.writes[1].handle = nextHandle
             /\ last.writes[1].endpoint = endpoint_out
             /\ InitLayout(last.writes[1].data)
        ELSE last.writes = <<>>

\* C9 witness: a connect() whose initialization command was accepted by an OUT endpoint
C9_Witness ==
    /\ last.op = "connect"
    /\ IsBulk
    /\ last.ret = "True"
    /\ endpoint_out \in {1, 2}
    /\ Len(last.writes) = 1

C11_ConnectedOnlyAfterHandshake ==
    (last.op = "connect" /\ last.ret = "True" /\ (IsBulk \/ device_def.init_sequence # <<>>))
        => /\ connected
           /\ Len(last.writes) = 1
           /\ last.writes[1].outcome = "ok"

\* C12 (as claimed): after any connect() that returns failure, whatever the state of the
\* backend before the call, is_connected() returns false and the connected flag is false.
C12_FailedConnectDisconnects ==
    (last.op = "connect" /\ last.ret = "False") => (~connected /\ NotConnectedNow)

\* C13 (as claimed): on either backend send_frame returns success only if the transport
\* accepted the full envelope; when the write reports fewer bytes than the length of the
\* envelope, or reports an error by its return value, send_frame returns failure.
C13_SuccessMeansFullWrite ==
    /\ (last.op = "send_frame" /\ last.ret = "True")
          => (Len(last.writes) = 1 /\ last.writes[1].outcome = "ok")
    /\ (last.op = "send_frame" /\ last.writes # <<>> /\ last.writes[1].outcome \in {"short", "error"})
          => last.ret = "False"

\* C14 (as claimed): when disconnect() returns on the Bulk backend, the OUT and IN endpoint
\* fields are None, no device handle is held and the connected flag is false, also when
\* the release of the device raised and also when the preceding connect() had failed.
C14_BulkDisconnectResets ==
    (last.op = "disconnect" /\ IsBulk)
        => (endpoint_out = None /\ endpoint_in = None /\ device = None /\ ~connected)

\* C15 (as claimed): when disconnect() returns on the Report backend, after any sequence of
\* calls, no device handle is held and the connected flag is false, whether or not
\* closing the handle raised.
C15_HIDDisconnectResets ==
    (last.op = "disconnect" /\ IsHID) => (device = None /\ ~connected)

\* C20 (as claimed): on a connected Report backend a second connect() without a
\* disconnect() in between, whose open is refused, returns failure and leaves the handle
\* of the first connection held, so that a disconnect() that follows still closes it.
C20_RefusedOpenKeepsFirstHandle ==
    [][(last.op = "connect" /\ IsHID /\ lib /\ last.pre.connected /\ last.pre.device # None
          /\ last.writes = <<>> /\ last.ret = "False")
         => /\ device = last.pre.device
            /\ last'.op = "disconnect" =>
                  (last'.pre.device = last.pre.device /\ last'.cleanup # "none")]_vars

\* C16 (as claimed): the factory maps an identity of transport kind 'hid' to a Report
\* backend and one of kind 'usb_bulk' to a Bulk backend, each bound to the identity given,
\* and for an identity of any other kind it reports a configuration error to the caller
\* instead of yielding no backend.
C16_FactoryReportsUnknownKind ==
    last.op = "create_backend" =>
        LET d == last.arg
            r == last.result
        IN  CASE d.backend_type = "hid" ->
                    /\ r.backend # Nothing
                    /\ r.backend[1].class = "HIDBackend"
                    /\ r.backend[1].device_def = d
              [] d.backend_type = "usb_bulk" ->
                    /\ r.backend # Nothing
                    /\ r.backend[1].class = "USBBulkBackend"
                    /\ r.backend[1].device_def = d
              [] OTHER -> r.raised

\* C17: with both platform layers working, enumerate_available_devices returns exactly the
\* registry identities attached through their own transport kind (a HID identity iff the
\* HID listing contains its vendor and product id, a bulk identity iff the USB lookup
\* finds them); every value returned is a registry entry and none is returned twice.
C17_EnumerateIsIntersection ==
    (last.op = "enumerate_available_devices" /\ last.hid.state = "ok" /\ last.usb.state = "ok")
        => LET available == last.result.available
           IN  /\ \A d \in Registry :
                     In(d, available) <=> PresentThroughOwnKind(d, last.hid, last.usb)
               /\ \A k \in 1..Len(available) : available[k] \in Registry
               /\ \A j, k \in 1..Len(available) : j # k => available[j] # available[k]

\* C17 witness: the HID listing names the Trofeo twice and the USB lookup finds the FW 360
C17_Witness ==
    /\ last.op = "enumerate_available_devices"
    /\ last.hid.state = "ok"
    /\ last.usb.state = "ok"
    /\ last.hid.listing = <<Pair(Trofeo), Pair(Trofeo)>>
    /\ Pair(FW360) \in last.usb.present
    /\ last.result.available = <<Trofeo, FW360>>

\* C18: when the platform layer of one transport kind is missing or raises during the
\* enumeration, enumerate_available_devices does not raise, returns no device of that kind
\* and still returns every attached registered device of the other kind.
C18_LayerFailureIsolated ==
    last.op = "enumerate_available_devices" =>
        LET available == last.result.available
            Kind(layer) == IF layer = "hid" THEN last.hid.state ELSE last.usb.state
            Type(layer) == IF layer = "hid" THEN "hid" ELSE "usb_bulk"
        IN  /\ ~last.result.raised
            /\ \A broken \in {"hid", "usb"} :
                 Kind(broken) # "ok" =>
                    /\ \A k \in 1..Len(available) : available[k].backend_type # Type(broken)
                    /\ \A other \in {"hid", "usb"} \ {broken} :
                         Kind(other) = "ok" =>
                            \A d \in Registry :
                               (d.backend_type = Type(other)
                                   /\ PresentThroughOwnKind(d, last.hid, last.usb))
                                 => In(d, available)

\* C18 witness: hid.enumerate() raised while the FW 360 is attached and found
C18_Witness ==
    /\ last.op = "enumerate_available_devices"
    /\ last.hid.state = "raises"
    /\ last.usb.state = "ok"
    /\ Pair(FW360) \in last.usb.present
    /\ last.result.available = <<FW360>>

\* C19: find_device_definition returns, for the vendor and product id of a registry
\* entry, that entry with every field unchanged, and None for every other pair; no two
\* registry entries share a (vendor id, product id) pair; a lookup changes no state.
C19_FindIsTableLookup ==
    /\ [](/\ \A i, j \in 1..Len(SUPPORTED_DEVICES) :
                Pair(SUPPORTED_DEVICES[i]) = Pair(SUPPORTED_DEVICES[j]) => i = j
          /\ last.op = "find_device_definition" =>
                /\ \A d \in Registry :
                      Pair(d) = [vendor_id |-> last.vid, product_id |-> last.pid]
                          => last.result = Some(d)
                /\ (\A d \in Registry :
                       Pair(d) # [vendor_id |-> last.vid, product_id |-> last.pid])
                          => last.result = Nothing)
    /\ [][last'.op = "find_device_definition"
            => UNCHANGED <<device_def, lib, module, device, connected, endpoint_out,
                           endpoint_in, nextHandle, writeFailed>>]_vars

\* C19 witness: the lookup of the second registry entry
C19_Witness ==
    /\ last.op = "find_device_definition"
    /\ last.vid = 34733
    /\ last.pid = 28891
    /\ last.result = Some(FW360)

\* C21 (as claimed): any failure of the bulk write inside Bulk send_frame, whatever
\* exception the write raises, sets the connected flag to false and returns failure,
\* after a single write attempt (no retry, no new handshake).
C21_BulkWriteFailureClearsFlag ==
    (last.op = "send_frame" /\ IsBulk /\ LastWriteRaised)
        => (last.ret = "False" /\ ~connected /\ Len(last.writes) = 1)

\* C22: Report send_frame on a backend holding a handle makes exactly one write attempt
\* per call, on that handle, of a single zero byte followed by the frame bytes unchanged;
\* if that write raises, connected is set to false and failure is returned.
C22_HIDOneReportPerFrame ==
    (last.op = "send_frame" /\ IsHID /\ last.pre.device # None)
        => /\ Len(last.writes) = 1
           /\ last.writes[1].handle = last.pre.device
           /\ Len(last.writes[1].data) = 1 + Len(last.frame)
           /\ last.writes[1].data[1] = 0
           /\ SubSeq(last.writes[1].data, 2, 1 + Len(last.frame)) = last.frame
           /\ last.writes[1].outcome = "raise" => (~connected /\ last.ret = "False")

\* C22 witness: the write of a non-empty frame raised on a connected backend
C22_Witness ==
    /\ last.op = "send_frame"
    /\ IsHID
    /\ last.pre.connected
    /\ last.frame = <<255>>
    /\ Len(last.writes) = 1
    /\ last.writes[1].outcome = "raise"

\* C26 (as claimed): in every reachable state of either backend a connected flag equal
\* to true implies that a device handle is held.
C26_ConnectedImpliesHandle ==
    connected => device # None

\* C29 (as claimed): the OUT and IN endpoints a Bulk connect() selects depend only on the
\* endpoints enumerated during that call: they are the ones a fresh backend would select
\* for the same enumeration, also after a failed connect() and without a disconnect().
C29_SelectionIgnoresHistory ==
    (last.op = "connect" /\ IsBulk /\ last.enumerated)
        => LET fresh == EnumerateConfig(last.cfg, [out |-> None, in |-> None])
           IN  endpoint_out = fresh.out /\ endpoint_in = fresh.in

\* C23: a Report connect() that opened the device, for an identity with a non-empty
\* initialization sequence s of at most 512 bytes, writes exactly one report of 513 bytes:
\* a zero byte, then a 512-byte buffer holding s followed by zeros, in which byte 12 is
\* 0x01 if and only if s is longer than 4 bytes (the flag replaces whatever s holds at
\* byte 12); with no initialization sequence, or when the device was not opened, it
\* writes nothing.
C23_InitReportLayout ==
    (last.op = "connect" /\ IsHID) =>
        LET s == device_def.init_sequence
        IN  IF last.opened # None /\ s # <<>>
            THEN /\ Len(last.writes) = 1
                 /\ last.writes[1].handle = last.opened
                 /\ LET data == last.writes[1].data
                    IN  /\ Len(data) = 513
                        /\ data[1] = 0
                        /\ \A i \in 0..511 :
                              i # 12 => data[i + 2] = (IF i < Len(s) THEN s[i + 1] ELSE 0)
                        /\ data[14] = 1 <=> Len(s) > 4
            ELSE last.writes = <<>>

\* C23 witness: a 13-byte sequence whose byte 12 is not 0x01 was written
C23_Witness ==
    /\ last.op = "connect"
    /\ IsHID
    /\ Len(device_def.init_sequence) = 13
    /\ device_def.init_sequence[13] = 218
    /\ Len(last.writes) = 1
    /\ last.writes[1].data[14] = 1

\* C24: in Bulk connect() a failure of set_configuration(), and a failure or the absence
\* of the kernel-driver query / detach, are not fatal: whenever the device was found and
\* no later step fails (the active configuration can be read, the handshake write does
\* not raise), connect() returns success.
C24_PreparationNotFatal ==
    (last.op = "connect" /\ IsBulk /\ last.opened # None /\ last.cfg # NoConfig
        /\ ~LastWriteRaised)
        => (last.ret = "True" /\ connected /\ device = last.opened)

\* C24 witness: the platform has no kernel-driver capability, set_configuration() failed,
\* and the initialization command was accepted
C24_Witness ==
    /\ last.op = "connect"
    /\ IsBulk
    /\ last.detach = "NotImplementedError"
    /\ last.set_configuration = "USBError"
    /\ Len(last.writes) = 1
    /\ last.writes[1].outcome = "ok"
    /\ last.ret = "True"

\* C25: when no device with the identity's vendor and product id is attached, Bulk
\* connect() returns failure without detaching a driver, setting a configuration,
\* selecting endpoints or writing a handshake, and holds no device handle afterwards.
C25_NotFoundTouchesNothing ==
    (last.op = "connect" /\ IsBulk /\ lib /\ last.opened = None)
        => /\ last.ret = "False"
           /\ last.detach = "none"
           /\ last.set_configuration = "none"
           /\ ~last.enumerated
           /\ endpoint_out = last.pre.endpoint_out
           /\ endpoint_in = last.pre.endpoint_in
           /\ last.writes = <<>>
           /\ device = None

\* C25 witness: the device is gone when a connected backend calls connect() again
C25_Witness ==
    /\ last.op = "connect"
    /\ IsBulk
    /\ lib
    /\ last.opened = None
    /\ last.pre.device # None
    /\ last.pre.endpoint_out # None

\* C27 (as claimed): no device handle is leaked: once disconnect() has returned, every
\* handle the backend obtained in an earlier connect() (also one that failed after
\* opening the device, and one made while already connected) has been closed or disposed.
C27_NoHandleLeak ==
    last.op = "disconnect" => unreleased = {}

\* C28 (as claimed): every frame write of a Bulk backend is preceded by a successful
\* write of the initialization command, issued by the most recent connect() on the same
\* device handle, with no disconnect() in between.
C28_FrameWriteAfterHandshake ==
    (last.op = "send_frame" /\ IsBulk /\ last.writes # <<>>)
        => handshook = last.writes[1].handle

\* C30 (as claimed): without serialization, however disconnect() on one thread
\* interleaves with send_frame() on another thread of the same backend, send_frame returns
\* a boolean without raising, and once both calls have returned the backend holds no
\* handle and its connected flag is false.
C30_RaceEndsDisconnected ==
    (race.pcS = "done" /\ race.pcD = "done")
        => /\ race.ret \in {"True", "False"}
           /\ ~race.raised
           /\ device = None
           /\ ~connected

====
